---- MODULE Spec2Model ----
(***************************************************************************)
(* A model of the relay core: the repository's write_event                 *)
(* (src/repo/postgres.rs), the database writer loop db_writer (src/db.rs)  *)
(* and the per-connection state ClientConn (src/conn.rs).                  *)
(*                                                                         *)
(* SQL statements are modelled by their relational meaning over the event  *)
(* and tag tables.  A statement that fails makes write_event return Err    *)
(* and the open transaction is dropped (rolled back); this is the          *)
(* nondeterministic "fail" input of the write actions.  The deletion       *)
(* UPDATE names the key column event_hash; it is modelled as the event's   *)
(* id, the hash that is the primary key of the event table.                *)
(***************************************************************************)
EXTENDS Integers, Sequences, FiniteSets, TLC

VARIABLES
    \* ---- repository (postgres.rs) ----
    event,              \* the "event" table: a set of rows
    tag,                \* the "tag" table: a set of rows
    wlog,               \* history: the write_event calls made so far, with results
    \* ---- database writer (db.rs) ----
    settings,           \* the Settings the writer was started with
    event_rx,           \* the submission channel (SubmittedEvent queue)
    submitted,          \* history: number of events handlers submitted in this run
    senders_open,       \* some handler still holds a sender of the channel
    bcast_tx,           \* everything sent on the broadcast bus, in order
    metadata_tx,        \* everything sent to the NIP-05 worker channel
    notice_tx,          \* every Notice the writer sent back, in order
    optimize_counter,   \* db_writer's local optimize_counter
    optimize_runs,      \* history: number of optimize_db calls
    shutdown,           \* a message is pending on the shutdown receiver
    writer_pc,          \* "loop" (top of the loop), "recv" (awaiting), "exit"
    sleeps,             \* history: number of rate-limit sleeps
    consumers,          \* the receivers of the broadcast bus: position, events got
    \* ---- connection state (conn.rs) ----
    subscriptions,      \* ClientConn.subscriptions: sub_id -> Subscription
    auth,               \* ClientConn.auth: the Nip42AuthState
    last                \* history: the last ClientConn call and its result

repo_vars == <<event, tag, wlog>>
writer_vars == <<settings, event_rx, submitted, senders_open, bcast_tx, metadata_tx,
                 notice_tx, optimize_counter, optimize_runs, shutdown,
                 writer_pc, sleeps, consumers>>
conn_vars == <<subscriptions, auth, last>>
vars == <<repo_vars, writer_vars, conn_vars>>

(***************************************************************************)
(* Strings.  The code inspects a string's length and whether it is         *)
(* (lowercase) hex, compares strings, and hex-decodes them.  A string is   *)
(* modelled by exactly that: its class of characters, its length and a     *)
(* body that names its characters up to letter case.                       *)
(***************************************************************************)
Str(h, n, b) == [hex |-> h, len |-> n, body |-> b]

\* SQL NULL / Rust None
NULL == [null |-> TRUE]

\* Rust Some(x)
Some(x) == [some |-> x]

\* utils::is_hex: every character is an ASCII hex digit
is_hex(s) == s.hex \in {"lower", "upper"}

\* utils::is_lower_hex: every character is a digit or a lowercase hex letter
is_lower_hex(s) == s.hex = "lower"

\* hex::decode(s).ok(): the bytes of an even-length hex string of either case
hex_decode(s) ==
    IF is_hex(s) /\ s.len % 2 = 0
    THEN [bytes |-> s.body, n |-> s.len \div 2]
    ELSE NULL

\* number of characters of a 32-byte value written in hex
HexIdLen == 64

\* a 32-byte value in lowercase hex: an event id or a public key
Hex32(b) == Str("lower", HexIdLen, b)


(***************************************************************************)
(* Events.  An event's id is the hash of its content, so one id names one  *)
(* event: the events that clients submit are drawn from a fixed table in   *)
(* which the index of an event is its id.                                  *)
(***************************************************************************)
PkA == Hex32(101)
PkB == Hex32(102)

Ev(i, pk, k, ts, tgs, d) ==
    [id |-> Hex32(i), pubkey |-> pk, created_at |-> ts, kind |-> k,
     tags |-> tgs, delegated_by |-> d]

\* an ["e", <id>] tag row
ETag(i) == <<"e", Hex32(i)>>

\* a short value that is hex but no event id
ShortHex == Str("lower", 4, 900)

\* a value that is not hex at all
PlainText == Str("none", 5, 901)

EventTable ==
    << Ev(1, PkA, 0, 1, <<>>, NULL),                  \* metadata, older
       Ev(2, PkA, 0, 2, <<>>, NULL),                  \* metadata, newer
       Ev(3, PkA, 0, 2, <<>>, NULL),                  \* metadata, same time as 2
       Ev(4, PkB, 0, 1, <<>>, NULL),                  \* metadata, other author
       Ev(5, PkA, 1, 1, << <<"p", PkB>>, <<"client", PlainText>>, <<"e">> >>, NULL),
       Ev(6, PkB, 1, 1, <<>>, PkA),                   \* delegated by A
       Ev(7, PkA, 3, 1, <<>>, NULL),                  \* contact list
       Ev(8, PkA, 19999, 1, <<>>, NULL),              \* last replaceable kind
       Ev(9, PkA, 5, 1, << ETag(5) >>, NULL),         \* deletion of 5
       Ev(10, PkA, 5, 1, << ETag(1), ETag(5) >>, NULL), \* deletion of 1 and 5
       Ev(11, PkB, 5, 1, << ETag(5) >>, NULL),        \* another author's deletion
       Ev(12, PkA, 5, 2, << ETag(9) >>, NULL),        \* deletion of a deletion
       Ev(13, PkA, 5, 2, << <<"e", ShortHex>> >>, NULL), \* no event id in its tags
       Ev(14, PkA, 20000, 1, <<>>, NULL),             \* ephemeral
       Ev(15, PkB, 29999, 1, <<>>, NULL),             \* ephemeral, last kind
       Ev(16, PkA, 30000, 1, <<>>, NULL) >>           \* first kind after ephemeral

Events == {EventTable[i] : i \in DOMAIN EventTable}

\* the test for an ephemeral kind with the lower bound excluded
IsEphemeral_LowerExclusive(k) == k > 20000 /\ k < 30000

\* db_writer's test for an ephemeral kind
IsEphemeral(k) == k >= 20000 /\ k < 30000

\* the events that can reach write_event
StoredEvents == {e \in Events : ~IsEphemeral(e.kind)}

(***************************************************************************)
(* write_event (postgres.rs)                                               *)
(***************************************************************************)
\* event::single_char_tagname: Some(c) iff the name is one character long
SingleCharNames ==
    {"a", "b", "c", "d", "e", "f", "g", "h", "i", "j", "k", "l", "m",
     "n", "o", "p", "q", "r", "s", "t", "u", "v", "w", "x", "y", "z"}

single_char_tagname(name) == name \in SingleCharNames

\* Event::tag_values_by_name: the second field of every row with that name
RECURSIVE tag_values_from(_, _, _)
tag_values_from(tgs, name, i) ==
    IF i > Len(tgs) THEN <<>>
    ELSE (IF Len(tgs[i]) > 1 /\ tgs[i][1] = name THEN <<tgs[i][2]>> ELSE <<>>)
         \o tag_values_from(tgs, name, i + 1)

tag_values_by_name(e, name) == tag_values_from(e.tags, name, 1)

\* the row the INSERT adds for e
EventRow(e) ==
    [id |-> hex_decode(e.id), pub_key |-> hex_decode(e.pubkey),
     created_at |-> e.created_at, kind |-> e.kind, content |-> e,
     delegated_by |-> IF e.delegated_by = NULL THEN NULL
                      ELSE hex_decode(e.delegated_by),
     hidden |-> FALSE]

\* INSERT INTO "event" ... ON CONFLICT (id) DO NOTHING
InsertEvent(ev, e) ==
    IF \E r \in ev : r.id = hex_decode(e.id) THEN ev ELSE ev \cup {EventRow(e)}

\* the value column of a tag row: bytes for even-length lowercase hex, else text
TagValue(v) ==
    IF is_lower_hex(v) /\ v.len % 2 = 0 THEN hex_decode(v) ELSE v

\* INSERT INTO tag ... ON CONFLICT (event_id, "name") DO NOTHING, for one row
InsertTag(tg, e, t) ==
    IF Len(t) >= 2 /\ single_char_tagname(t[1])
       /\ ~\E x \in tg : x.event_id = hex_decode(e.id) /\ x.name = t[1]
    THEN tg \cup {[event_id |-> hex_decode(e.id), name |-> t[1],
                   value |-> TagValue(t[2])]}
    ELSE tg

\* the loop over e.tags
RECURSIVE InsertTags(_, _, _)
InsertTags(tg, e, i) ==
    IF i > Len(e.tags) THEN tg
    ELSE InsertTags(InsertTag(tg, e, e.tags[i]), e, i + 1)

IsReplaceable(k) == k = 0 \/ k = 3 \/ (k >= 10000 /\ k < 20000)

\* an UPDATE that flips the hidden bit of the rows selected
Hide_Flips(ev, selected) ==
    {IF r \in selected THEN [r EXCEPT !.hidden = ~r.hidden] ELSE r : r \in ev}

\* SET hidden = 1::bit(1) on the rows the WHERE clause selected
Hide(ev, selected) ==
    {IF r \in selected THEN [r EXCEPT !.hidden = TRUE] ELSE r : r \in ev}

\* the replacement UPDATE with created_at < $4: a tie leaves the older row
HideReplaced_StrictlyOlder(ev, e) ==
    LET older == {r \in ev : /\ r.id # hex_decode(e.id)
                              /\ r.kind = e.kind
                              /\ r.pub_key = hex_decode(e.pubkey)
                              /\ r.created_at < e.created_at
                              /\ ~r.hidden}
    IN  IF IsReplaceable(e.kind) THEN Hide(ev, older) ELSE ev

\* UPDATE "event" SET hidden WHERE id != $1 AND kind = $2 AND pub_key = $3
\*                                 AND created_at <= $4 AND hidden != 1
HideReplaced(ev, e) ==
    LET older == {r \in ev : /\ r.id # hex_decode(e.id)
                              /\ r.kind = e.kind
                              /\ r.pub_key = hex_decode(e.pubkey)
                              /\ r.created_at <= e.created_at
                              /\ ~r.hidden}
    IN  IF IsReplaceable(e.kind) THEN Hide(ev, older) ELSE ev

\* the ids a deletion event names: its "e" values that are 64 hex characters
DeletionTargets(e) ==
    LET vals == tag_values_by_name(e, "e")
    IN  {hex_decode(vals[i]) :
            i \in {j \in DOMAIN vals : is_hex(vals[j]) /\ vals[j].len = HexIdLen}}

\* the deletion UPDATE without its pub_key condition
HideDeleted_AnyAuthor(ev, e) ==
    Hide(ev, {r \in ev : r.kind # 5 /\ r.id \in DeletionTargets(e)})

\* UPDATE "event" SET hidden WHERE kind != 5 AND pub_key = $1 AND event_hash IN (..)
HideDeleted(ev, e) ==
    Hide(ev, {r \in ev : /\ r.kind # 5
                          /\ r.pub_key = hex_decode(e.pubkey)
                          /\ r.id \in DeletionTargets(e)})

\* SELECT e.id FROM "event" e LEFT JOIN tag t ON e.id = t.event_id
\*   WHERE e.pub_key = $1 AND t."name" = 'e' AND e.kind = 5 AND t.value = $2
DeletionRecorded(ev, tg, e) ==
    \E r \in ev, t \in tg :
        /\ r.id = t.event_id
        /\ r.pub_key = hex_decode(e.pubkey)
        /\ t.name = "e"
        /\ r.kind = 5
        /\ t.value = hex_decode(e.id)

\* UPDATE "event" SET hidden WHERE id = $1
HideSelf(ev, e) ==
    Hide(ev, {r \in ev : r.id = hex_decode(e.id)})

Ok(n) == [ok |-> TRUE, n |-> n]
Err == [ok |-> FALSE, n |-> 0]

\* write_event without the early return for ins_count == 0
write_event_NoDuplicateReturn(ev, tg, e, fail) ==
    IF fail THEN [event |-> ev, tag |-> tg, res |-> Err]
    ELSE
        LET ev1 == InsertEvent(ev, e)
            tg1 == InsertTags(tg, e, 1)
            ev2 == HideReplaced(ev1, e)
        IN  IF e.kind = 5
            THEN [event |-> HideDeleted(ev2, e), tag |-> tg1, res |-> Ok(1)]
            ELSE IF DeletionRecorded(ev2, tg1, e)
            THEN [event |-> HideSelf(ev2, e), tag |-> tg1, res |-> Ok(0)]
            ELSE [event |-> ev2, tag |-> tg1, res |-> Ok(1)]

\* write_event that answers Ok(1) although the commit failed
write_event_CommitErrorIgnored(ev, tg, e, fail) ==
    IF fail THEN [event |-> ev, tag |-> tg, res |-> Ok(1)]
    ELSE IF InsertEvent(ev, e) = ev
    THEN [event |-> ev, tag |-> tg, res |-> Ok(0)]
    ELSE
        LET ev1 == InsertEvent(ev, e)
            tg1 == InsertTags(tg, e, 1)
            ev2 == HideReplaced(ev1, e)
        IN  IF e.kind = 5
            THEN [event |-> HideDeleted(ev2, e), tag |-> tg1, res |-> Ok(1)]
            ELSE IF DeletionRecorded(ev2, tg1, e)
            THEN [event |-> HideSelf(ev2, e), tag |-> tg1, res |-> Ok(0)]
            ELSE [event |-> ev2, tag |-> tg1, res |-> Ok(1)]

\* write_event on tables ev, tg: the tables after it and its result.  With
\* fail, some statement or the commit failed: the transaction is rolled back.
write_event(ev, tg, e, fail) ==
    IF fail THEN [event |-> ev, tag |-> tg, res |-> Err]
    ELSE IF InsertEvent(ev, e) = ev
    THEN [event |-> ev, tag |-> tg, res |-> Ok(0)]
    ELSE
        LET ev1 == InsertEvent(ev, e)
            tg1 == InsertTags(tg, e, 1)
            ev2 == HideReplaced(ev1, e)
        IN  IF e.kind = 5
            THEN [event |-> HideDeleted(ev2, e), tag |-> tg1, res |-> Ok(1)]
            ELSE IF DeletionRecorded(ev2, tg1, e)
            THEN [event |-> HideSelf(ev2, e), tag |-> tg1, res |-> Ok(0)]
            ELSE [event |-> ev2, tag |-> tg1, res |-> Ok(1)]

(***************************************************************************)
(* Initial values                                                          *)
(***************************************************************************)
NoAuth == [state |-> "NoAuth"]
Challenge(n) == [state |-> "Challenge", nonce |-> n]
AuthPubkey(pk) == [state |-> "AuthPubkey", pubkey |-> pk]

\* the repository starts empty
RepoInit == event = {} /\ tag = {} /\ wlog = <<>>

\* the tasks that hold a receiver of the broadcast bus
Consumers == {"c1", "c2"}

\* db_writer's locals as it enters its loop, for the given settings; the
\* receivers of the bus have seen nothing yet
WriterStart(s) ==
    /\ settings = s
    /\ event_rx = <<>>
    /\ submitted = 0
    /\ senders_open = TRUE
    /\ bcast_tx = <<>>
    /\ metadata_tx = <<>>
    /\ notice_tx = <<>>
    /\ optimize_counter = 0
    /\ optimize_runs = 0
    /\ shutdown = FALSE
    /\ writer_pc = "loop"
    /\ sleeps = 0
    /\ consumers = [c \in Consumers |-> [pos |-> 0, got |-> <<>>]]

\* Settings::default as far as db_writer reads it: no whitelist, NIP-05
\* checking disabled, no rate limit
DefaultSettings ==
    [pubkey_whitelist |-> NULL, nip05_active |-> FALSE,
     nip05_enabled |-> FALSE, messages_per_sec |-> NULL]

\* HashMap::new()
EmptyMap == [k \in {} |-> NULL]

\* ClientConn::new
ConnInit ==
    /\ subscriptions = EmptyMap
    /\ auth = NoAuth
    /\ last = [op |-> "new"]

(***************************************************************************)
(* The repository on its own: any sequence of write_event calls.           *)
(***************************************************************************)
\* number of write_event calls in one behaviour
MaxWrites == 3

RepoWrite(e, fail) ==
    /\ Len(wlog) < MaxWrites
    /\ LET w == write_event(event, tag, e, fail)
       IN  /\ event' = w.event
           /\ tag' = w.tag
           /\ wlog' = Append(wlog, [e |-> e, res |-> w.res])
    /\ UNCHANGED <<writer_vars, conn_vars>>

InitRepo == RepoInit /\ WriterStart(DefaultSettings) /\ ConnInit

NextRepo == \E e \in StoredEvents, fail \in BOOLEAN : RepoWrite(e, fail)

SpecRepo == InitRepo /\ [][NextRepo]_vars

(***************************************************************************)
(* Claims about the repository                                             *)
(***************************************************************************)
\* the rows of the event table that are visible
Visible(ev) == {r \in ev : ~r.hidden}

\* C1: for every (pubkey, kind) with a replaceable kind at most one stored
\* row is not hidden, whatever the order of created_at of the writes.
C1_AtMostOneVisibleReplaceable ==
    \A r1, r2 \in Visible(event) :
        (IsReplaceable(r1.kind) /\ r1.kind = r2.kind /\ r1.pub_key = r2.pub_key)
            => r1 = r2

\* the ids named by the "e" tags of a stored event
ReferencedIds(row) ==
    LET vals == tag_values_by_name(row.content, "e")
    IN  {hex_decode(vals[i]) : i \in DOMAIN vals}

\* C3: every stored event whose id is referenced by an "e" tag of a stored
\* kind-5 event of the same author is hidden.
C3_DeletedEventsHidden ==
    \A d, r \in event :
        (d.kind = 5 /\ d.pub_key = r.pub_key /\ r.id \in ReferencedIds(d))
            => r.hidden

\* the events written successfully so far
Written == {wlog[i].e : i \in {j \in DOMAIN wlog : wlog[j].res.ok}}

\* C4: once an event e and a kind-5 event d of the same author whose "e" tags
\* include e.id have both been written, in either order, e is stored and hidden.
C4_DeletionOrderIndependent ==
    \A e, d \in Written :
        (d.kind = 5 /\ d.pubkey = e.pubkey /\ e # d
         /\ \E i \in DOMAIN d.tags : d.tags[i] = <<"e", e.id>>)
            => \E r \in event : r.id = hex_decode(e.id) /\ r.hidden

\* C17: no write mutates or removes a stored event: across write_event calls
\* a stored row keeps its id, pubkey, created_at, kind and content, and its
\* hidden bit changes only from false to true.
C17_RowsImmutable ==
    /\ [](\A r1, r2 \in event : r1.id = r2.id => r1 = r2)
    /\ [][\A r \in event :
            \E r2 \in event' :
               /\ r2.id = r.id
               /\ r2.pub_key = r.pub_key
               /\ r2.created_at = r.created_at
               /\ r2.kind = r.kind
               /\ r2.content = r.content
               /\ r2.delegated_by = r.delegated_by
               /\ r.hidden => r2.hidden]_vars

\* an event was deleted and then named by a second deletion: it is hidden still
C17_Witness ==
    /\ Len(wlog) = 3
    /\ \A i \in DOMAIN wlog : wlog[i].res = Ok(1)
    /\ wlog[2].e.kind = 5
    /\ wlog[3].e.kind = 5
    /\ \E r \in event :
          /\ r.content = wlog[1].e
          /\ r.hidden
          /\ r.id \in DeletionTargets(wlog[2].e) \cap DeletionTargets(wlog[3].e)


\* the replaceable kinds: 0, 3 and 10000 <= kind < 20000
ReplaceableKinds == {0, 3} \cup (10000..19999)

\* the event of the write_event call made in this step, if it inserted a row
Inserted(e) ==
    /\ wlog' = Append(wlog, [e |-> e, res |-> wlog'[Len(wlog')].res])
    /\ ~\E r \in event : r.id = hex_decode(e.id)
    /\ \E r \in event' : r.id = hex_decode(e.id)

\* C21: right after a successful write of a replaceable event e every other
\* stored event of the same kind and pubkey with created_at <= e.created_at is
\* hidden, also one with created_at equal to e.created_at, and the events of
\* another kind or another pubkey keep their hidden bit.
C21_ReplacementHidesOlder ==
    [][\A e \in StoredEvents :
          (Inserted(e) /\ e.kind \in ReplaceableKinds)
          => /\ \A r \in event' :
                   (/\ r.id # hex_decode(e.id)
                    /\ r.kind = e.kind
                    /\ r.pub_key = hex_decode(e.pubkey)
                    /\ r.created_at <= e.created_at) => r.hidden
             /\ \A r \in event :
                   (r.kind # e.kind \/ r.pub_key # hex_decode(e.pubkey))
                   => r \in event']_vars

\* a metadata event was written after one of the same author and time and one
\* of another author: the first is hidden, the other author's is not
C21_Witness ==
    /\ Len(wlog) = 3
    /\ wlog[1].e = EventTable[4] /\ wlog[1].res = Ok(1)
    /\ wlog[2].e = EventTable[2] /\ wlog[2].res = Ok(1)
    /\ wlog[3].e = EventTable[3] /\ wlog[3].res = Ok(1)
    /\ \E r \in event : r.content = EventTable[2] /\ r.hidden
    /\ \E r \in event : r.content = EventTable[3] /\ ~r.hidden
    /\ \E r \in event : r.content = EventTable[4] /\ ~r.hidden


\* C29: no write hides another author's event: every stored row whose hidden
\* bit a write_event call of an event e changes has the pubkey of e, for
\* replacement and for deletion; every row of another author is left as it
\* was.
C29_HidesOnlyOwnEvents ==
    [][wlog' # wlog
        => LET pk == hex_decode(wlog'[Len(wlog')].e.pubkey)
           IN  /\ \A r \in event, r2 \in event' :
                    (r.id = r2.id /\ r.hidden # r2.hidden) => r.pub_key = pk
               /\ \A r \in event : r.pub_key # pk => r \in event']_vars

\* A's note 5 was written, then B's deletion naming it: the deletion was
\* stored and the note is still visible
C29_Witness ==
    /\ Len(wlog) = 2
    /\ wlog[1] = [e |-> EventTable[5], res |-> Ok(1)]
    /\ wlog[2] = [e |-> EventTable[11], res |-> Ok(1)]
    /\ \E r \in event : r.id = hex_decode(EventTable[5].id) /\ ~r.hidden
    /\ \E r \in event : r.id = hex_decode(EventTable[11].id)


(***************************************************************************)
(* db_writer (db.rs)                                                       *)
(***************************************************************************)
\* How many persisted events before optimization is triggered
EVENT_COUNT_OPTIMIZE_TRIGGER == 500

\* the Notice values db_writer sends back
Notice(e, status) == [id |-> e.id, status |-> status]

\* the whitelist check: Some(allowed_addrs) that does not contain event.pubkey
Unauthorized(s, e) ==
    s.pubkey_whitelist # NULL /\ e.pubkey \notin s.pubkey_whitelist.some

\* lim_opt is Some: a rate limit of more than 0 messages per second is set
RateLimited(s) == s.messages_per_sec # NULL /\ s.messages_per_sec.some > 0

\* Event::is_kind_metadata
is_kind_metadata(e) == e.kind = 0

\* what get_latest_user_verification and uv.is_valid can answer
Verifications == {"valid", "invalid", "missing"}

\* an iteration that puts what it publishes at the head of the bus
Iteration_PublishesFirst(notices, meta, bcast, w, persist, slept, optfail) ==
    /\ notice_tx' = notice_tx \o notices
    /\ metadata_tx' = metadata_tx \o meta
    /\ bcast_tx' = bcast \o bcast_tx
    /\ event' = w.event
    /\ tag' = w.tag
    /\ wlog' = IF persist THEN Append(wlog, [e |-> Head(event_rx), res |-> w.res])
               ELSE wlog
    /\ optimize_counter' =
         IF ~persist THEN optimize_counter
         ELSE IF optimize_counter + 1 > EVENT_COUNT_OPTIMIZE_TRIGGER THEN 0
         ELSE optimize_counter + 1
    /\ optimize_runs' =
         IF persist /\ optimize_counter + 1 > EVENT_COUNT_OPTIMIZE_TRIGGER
         THEN optimize_runs + 1 ELSE optimize_runs
    /\ sleeps' = IF slept THEN sleeps + 1 ELSE sleeps
    /\ writer_pc' = IF optfail THEN "exit" ELSE "loop"

\* an iteration that returns from db_writer on an error of write_event too
Iteration_StopsOnWriteError(notices, meta, bcast, w, persist, slept, optfail) ==
    /\ notice_tx' = notice_tx \o notices
    /\ metadata_tx' = metadata_tx \o meta
    /\ bcast_tx' = bcast_tx \o bcast
    /\ event' = w.event
    /\ tag' = w.tag
    /\ wlog' = IF persist THEN Append(wlog, [e |-> Head(event_rx), res |-> w.res])
               ELSE wlog
    /\ optimize_counter' =
         IF ~persist THEN optimize_counter
         ELSE IF optimize_counter + 1 > EVENT_COUNT_OPTIMIZE_TRIGGER THEN 0
         ELSE optimize_counter + 1
    /\ optimize_runs' =
         IF persist /\ optimize_counter + 1 > EVENT_COUNT_OPTIMIZE_TRIGGER
         THEN optimize_runs + 1 ELSE optimize_runs
    /\ sleeps' = IF slept THEN sleeps + 1 ELSE sleeps
    /\ writer_pc' = IF optfail \/ (persist /\ ~w.res.ok) THEN "exit" ELSE "loop"

\* The state a loop iteration leaves behind, given what it did:
\*   notices  the Notices it sent, in order
\*   meta     the events it sent to the NIP-05 worker
\*   bcast    the events it sent on the broadcast bus
\*   w        the tables and result of write_event, or NULL if it was not called
\*   slept    whether the rate limiter made it sleep
\*   optfail  whether optimize_db was run and failed
Iteration(notices, meta, bcast, w, persist, slept, optfail) ==
    /\ notice_tx' = notice_tx \o notices
    /\ metadata_tx' = metadata_tx \o meta
    /\ bcast_tx' = bcast_tx \o bcast
    /\ event' = w.event
    /\ tag' = w.tag
    /\ wlog' = IF persist THEN Append(wlog, [e |-> Head(event_rx), res |-> w.res])
               ELSE wlog
    /\ optimize_counter' =
         IF ~persist THEN optimize_counter
         ELSE IF optimize_counter + 1 > EVENT_COUNT_OPTIMIZE_TRIGGER THEN 0
         ELSE optimize_counter + 1
    /\ optimize_runs' =
         IF persist /\ optimize_counter + 1 > EVENT_COUNT_OPTIMIZE_TRIGGER
         THEN optimize_runs + 1 ELSE optimize_runs
    /\ sleeps' = IF slept THEN sleeps + 1 ELSE sleeps
    /\ writer_pc' = IF optfail THEN "exit" ELSE "loop"

\* the top of the loop: shutdown.try_recv()
WriterLoop ==
    /\ writer_pc = "loop"
    /\ IF shutdown
       THEN shutdown' = FALSE /\ writer_pc' = "exit"
       ELSE shutdown' = FALSE /\ writer_pc' = "recv"
    /\ UNCHANGED <<settings, event_rx, submitted, senders_open, bcast_tx,
                   metadata_tx, notice_tx, optimize_counter, optimize_runs,
                   sleeps, repo_vars, conn_vars, consumers>>

\* event_rx.recv() returns None: the channel is closed and empty
WriterClosed ==
    /\ writer_pc = "recv"
    /\ event_rx = <<>>
    /\ ~senders_open
    /\ writer_pc' = "exit"
    /\ UNCHANGED <<settings, event_rx, submitted, senders_open, bcast_tx,
                   metadata_tx, notice_tx, optimize_counter, optimize_runs,
                   shutdown, sleeps, repo_vars, conn_vars, consumers>>

\* the loop body that asks the rate limiter before the write and, with no
\* token left, sleeps and goes on to the next event
WriterEvent_LimitDropsEvent(uv, fail, limited, optfail) ==
    /\ writer_pc = "recv"
    /\ event_rx # <<>>
    /\ event_rx' = Tail(event_rx)
    /\ LET e == Head(event_rx)
           s == settings
           none == [event |-> event, tag |-> tag, res |-> Err]
           meta == IF s.nip05_active /\ is_kind_metadata(e) THEN <<e>> ELSE <<>>
           w == write_event(event, tag, e, fail)
           wrote == IF IsEphemeral(e.kind) THEN TRUE ELSE w.res.ok /\ w.res.n # 0
           slept == wrote /\ RateLimited(s) /\ limited
           opt == ~IsEphemeral(e.kind)
                  /\ optimize_counter + 1 > EVENT_COUNT_OPTIMIZE_TRIGGER /\ optfail
       IN  IF Unauthorized(s, e)
           THEN Iteration(<<Notice(e, "blocked")>>, <<>>, <<>>, none,
                          FALSE, FALSE, FALSE)
           ELSE IF s.nip05_enabled /\ uv # "valid"
           THEN Iteration(<<Notice(e, "blocked")>>, meta, <<>>, none,
                          FALSE, FALSE, FALSE)
           ELSE IF RateLimited(s) /\ limited
           THEN Iteration(<<>>, meta, <<>>, none, FALSE, TRUE, FALSE)
           ELSE IF IsEphemeral(e.kind)
           THEN Iteration(<<>>, meta, <<e>>, none, FALSE, slept, FALSE)
           ELSE IF ~w.res.ok
           THEN Iteration(<<Notice(e, "error")>>, meta, <<>>, w, TRUE, FALSE, opt)
           ELSE IF w.res.n = 0
           THEN Iteration(<<Notice(e, "duplicate")>>, meta, <<>>, w, TRUE, FALSE, opt)
           ELSE Iteration(<<Notice(e, "saved")>>, meta, <<e>>, w, TRUE,
                          slept /\ ~opt, opt)
    /\ UNCHANGED <<settings, submitted, senders_open, shutdown, conn_vars, consumers>>

\* the loop body that sends a metadata event to the verifier only after
\* the NIP-05 gate has admitted it
WriterEvent_ForwardsAfterGating(uv, fail, limited, optfail) ==
    /\ writer_pc = "recv"
    /\ event_rx # <<>>
    /\ event_rx' = Tail(event_rx)
    /\ LET e == Head(event_rx)
           s == settings
           none == [event |-> event, tag |-> tag, res |-> Err]
           meta == IF s.nip05_active /\ is_kind_metadata(e) THEN <<e>> ELSE <<>>
           w == write_event(event, tag, e, fail)
           wrote == IF IsEphemeral(e.kind) THEN TRUE ELSE w.res.ok /\ w.res.n # 0
           slept == wrote /\ RateLimited(s) /\ limited
           opt == ~IsEphemeral(e.kind)
                  /\ optimize_counter + 1 > EVENT_COUNT_OPTIMIZE_TRIGGER /\ optfail
       IN  IF Unauthorized(s, e)
           THEN Iteration(<<Notice(e, "blocked")>>, <<>>, <<>>, none,
                          FALSE, FALSE, FALSE)
           ELSE IF s.nip05_enabled /\ uv # "valid"
           THEN Iteration(<<Notice(e, "blocked")>>, <<>>, <<>>, none,
                          FALSE, FALSE, FALSE)
           ELSE IF IsEphemeral(e.kind)
           THEN Iteration(<<>>, meta, <<e>>, none, FALSE, slept, FALSE)
           ELSE IF ~w.res.ok
           THEN Iteration(<<Notice(e, "error")>>, meta, <<>>, w, TRUE, FALSE, opt)
           ELSE IF w.res.n = 0
           THEN Iteration(<<Notice(e, "duplicate")>>, meta, <<>>, w, TRUE, FALSE, opt)
           ELSE Iteration(<<Notice(e, "saved")>>, meta, <<e>>, w, TRUE,
                          slept /\ ~opt, opt)
    /\ UNCHANGED <<settings, submitted, senders_open, shutdown, conn_vars, consumers>>

\* the loop body that also publishes an event write_event counted 0 for
WriterEvent_PublishesDuplicate(uv, fail, limited, optfail) ==
    /\ writer_pc = "recv"
    /\ event_rx # <<>>
    /\ event_rx' = Tail(event_rx)
    /\ LET e == Head(event_rx)
           s == settings
           none == [event |-> event, tag |-> tag, res |-> Err]
           meta == IF s.nip05_active /\ is_kind_metadata(e) THEN <<e>> ELSE <<>>
           w == write_event(event, tag, e, fail)
           wrote == IF IsEphemeral(e.kind) THEN TRUE ELSE w.res.ok /\ w.res.n # 0
           slept == wrote /\ RateLimited(s) /\ limited
           opt == ~IsEphemeral(e.kind)
                  /\ optimize_counter + 1 > EVENT_COUNT_OPTIMIZE_TRIGGER /\ optfail
       IN  IF Unauthorized(s, e)
           THEN Iteration(<<Notice(e, "blocked")>>, <<>>, <<>>, none,
                          FALSE, FALSE, FALSE)
           ELSE IF s.nip05_enabled /\ uv # "valid"
           THEN Iteration(<<Notice(e, "blocked")>>, meta, <<>>, none,
                          FALSE, FALSE, FALSE)
           ELSE IF IsEphemeral(e.kind)
           THEN Iteration(<<>>, meta, <<e>>, none, FALSE, slept, FALSE)
           ELSE IF ~w.res.ok
           THEN Iteration(<<Notice(e, "error")>>, meta, <<>>, w, TRUE, FALSE, opt)
           ELSE IF w.res.n = 0
           THEN Iteration(<<Notice(e, "duplicate")>>, meta, <<e>>, w, TRUE, FALSE, opt)
           ELSE Iteration(<<Notice(e, "saved")>>, meta, <<e>>, w, TRUE,
                          slept /\ ~opt, opt)
    /\ UNCHANGED <<settings, submitted, senders_open, shutdown, conn_vars, consumers>>

\* event_rx.recv() returns an event: the rest of the loop body.
\*   uv       the answer of the NIP-05 lookup (read if nip05_enabled)
\*   fail     write_event fails (read if the event is persisted)
\*   limited  the rate limiter has no token left (read after a write)
\*   optfail  optimize_db fails (read if it is run)
WriterEvent(uv, fail, limited, optfail) ==
    /\ writer_pc = "recv"
    /\ event_rx # <<>>
    /\ event_rx' = Tail(event_rx)
    /\ LET e == Head(event_rx)
           s == settings
           none == [event |-> event, tag |-> tag, res |-> Err]
           meta == IF s.nip05_active /\ is_kind_metadata(e) THEN <<e>> ELSE <<>>
           w == write_event(event, tag, e, fail)
           wrote == IF IsEphemeral(e.kind) THEN TRUE ELSE w.res.ok /\ w.res.n # 0
           slept == wrote /\ RateLimited(s) /\ limited
           opt == ~IsEphemeral(e.kind)
                  /\ optimize_counter + 1 > EVENT_COUNT_OPTIMIZE_TRIGGER /\ optfail
       IN  IF Unauthorized(s, e)
           THEN Iteration(<<Notice(e, "blocked")>>, <<>>, <<>>, none,
                          FALSE, FALSE, FALSE)
           ELSE IF s.nip05_enabled /\ uv # "valid"
           THEN Iteration(<<Notice(e, "blocked")>>, meta, <<>>, none,
                          FALSE, FALSE, FALSE)
           ELSE IF IsEphemeral(e.kind)
           THEN Iteration(<<>>, meta, <<e>>, none, FALSE, slept, FALSE)
           ELSE IF ~w.res.ok
           THEN Iteration(<<Notice(e, "error")>>, meta, <<>>, w, TRUE, FALSE, opt)
           ELSE IF w.res.n = 0
           THEN Iteration(<<Notice(e, "duplicate")>>, meta, <<>>, w, TRUE, FALSE, opt)
           ELSE Iteration(<<Notice(e, "saved")>>, meta, <<e>>, w, TRUE,
                          slept /\ ~opt, opt)
    /\ UNCHANGED <<settings, submitted, senders_open, shutdown, conn_vars, consumers>>

\* capacity of the submission channel
ChannelCap == 2

\* number of events submitted in one behaviour
MaxSubmit == 3

\* a connection handler sends a validated event to the writer
Submit(e) ==
    /\ senders_open
    /\ writer_pc # "exit"
    /\ submitted < MaxSubmit
    /\ Len(event_rx) < ChannelCap
    /\ event_rx' = Append(event_rx, e)
    /\ submitted' = submitted + 1
    /\ UNCHANGED <<settings, senders_open, bcast_tx, metadata_tx, notice_tx,
                   optimize_counter, optimize_runs, shutdown, writer_pc,
                   sleeps, repo_vars, conn_vars, consumers>>

\* the server broadcasts the shutdown signal
SendShutdown ==
    /\ ~shutdown
    /\ writer_pc # "exit"
    /\ shutdown' = TRUE
    /\ UNCHANGED <<settings, event_rx, submitted, senders_open, bcast_tx,
                   metadata_tx, notice_tx, optimize_counter, optimize_runs,
                   writer_pc, sleeps, repo_vars, conn_vars, consumers>>

\* the last sender of the submission channel is dropped
CloseChannel ==
    /\ senders_open
    /\ senders_open' = FALSE
    /\ UNCHANGED <<settings, event_rx, submitted, bcast_tx, metadata_tx,
                   notice_tx, optimize_counter, optimize_runs, shutdown,
                   writer_pc, sleeps, repo_vars, conn_vars, consumers>>

\* the settings the writer is started with
WriterSettings ==
    [pubkey_whitelist : {NULL, Some({PkA})},
     nip05_active : {FALSE},
     nip05_enabled : {FALSE},
     messages_per_sec : {NULL}]
    \cup
    {[pubkey_whitelist |-> NULL, nip05_active |-> TRUE,
      nip05_enabled |-> en, messages_per_sec |-> NULL] : en \in BOOLEAN}
    \cup
    {[DefaultSettings EXCEPT !.messages_per_sec = Some(1)]}

\* the events handlers submit to the writer
WriterEvents == {EventTable[i] : i \in {1, 5, 6, 9, 14, 15, 16}}

\* the inputs an iteration reads in the current state
UvChoices == IF settings.nip05_enabled THEN Verifications ELSE {"valid"}
LimitedChoices == IF RateLimited(settings) THEN BOOLEAN ELSE {FALSE}
OptfailChoices ==
    IF optimize_counter + 1 > EVENT_COUNT_OPTIMIZE_TRIGGER THEN BOOLEAN ELSE {FALSE}

InitWriter ==
    RepoInit /\ ConnInit /\ \E s \in WriterSettings : WriterStart(s)

\* the writer at work: handlers submit, the writer processes
NextWriter ==
    \/ \E e \in WriterEvents : Submit(e)
    \/ WriterLoop
    \/ \E uv \in UvChoices, fail \in BOOLEAN, limited \in LimitedChoices,
          optfail \in OptfailChoices :
           WriterEvent(uv, fail, limited, optfail)

SpecWriter == InitWriter /\ [][NextWriter]_vars


(***************************************************************************)
(* Claims about the writer                                                 *)
(***************************************************************************)
\* the statuses of the Notices sent for event e, in order
RECURSIVE StatusesFrom(_, _)
StatusesFrom(ns, e) ==
    IF ns = <<>> THEN <<>>
    ELSE (IF Head(ns).id = e.id THEN <<Head(ns).status>> ELSE <<>>)
         \o StatusesFrom(Tail(ns), e)

\* the replies to the submissions of e that write_event answered with Ok
IsWriteReply(st) == st \in {"saved", "duplicate"}
WriteReplies(e) == SelectSeq(StatusesFrom(notice_tx, e), IsWriteReply)

\* how often e was sent on the broadcast bus
Published(e) == Cardinality({i \in DOMAIN bcast_tx : bcast_tx[i] = e})

\* the stored rows with the id of e
RowsOf(e) == {r \in event : r.id = hex_decode(e.id)}

\* the events submitted twice (or more) whose writes returned Ok
WrittenTwice == {e \in WriterEvents : ~IsEphemeral(e.kind) /\ Len(WriteReplies(e)) >= 2}

DeletionStored(e) ==
    \E d \in event :
        d.kind = 5 /\ d.pub_key = hex_decode(e.pubkey) /\ hex_decode(e.id) \in ReferencedIds(d)

\* the replies to e are one saved followed by duplicates
SavedOnce(e) ==
    /\ WriteReplies(e)[1] = "saved"
    /\ \A i \in 2..Len(WriteReplies(e)) : WriteReplies(e)[i] = "duplicate"
    /\ Published(e) = 1

\* the replies to e are all duplicate: it was stored hidden under a deletion
NeverSaved(e) ==
    /\ \A i \in 1..Len(WriteReplies(e)) : WriteReplies(e)[i] = "duplicate"
    /\ Published(e) = 0
    /\ e.kind # 5
    /\ DeletionStored(e)
    /\ \A r \in RowsOf(e) : r.hidden

\* the event at the head of the channel is already stored
HeadStored == event_rx # <<>> /\ RowsOf(Head(event_rx)) # {}

BusStored == {bcast_tx[i] : i \in {j \in DOMAIN bcast_tx : ~IsEphemeral(bcast_tx[j].kind)}}

\* C12: every non-ephemeral event on the broadcast bus was committed to the
\* event store before it was published: a row with its id is stored, and a
\* step that publishes such an event leaves its row committed.
C12_DurableBeforeBroadcast ==
    /\ [](\A e \in BusStored : RowsOf(e) # {})
    /\ [][\A e \in WriterEvents :
            (bcast_tx' # bcast_tx /\ bcast_tx'[Len(bcast_tx')] = e
             /\ ~IsEphemeral(e.kind))
            => \E r \in event' : r.id = hex_decode(e.id) /\ r.content = e]_vars

\* an event is on the bus and stored after an earlier write of it had failed
C12_Witness ==
    \E e \in BusStored :
        /\ RowsOf(e) # {}
        /\ StatusesFrom(notice_tx, e) = <<"error", "saved">>


\* a write_event call that returned a count > 0
IsCommitted(x) == x.res.ok /\ x.res.n > 0

\* the writer takes the event at the head of the channel in this step
TakesHead == writer_pc = "recv" /\ event_rx # <<>> /\ event_rx' = Tail(event_rx)

\* the pubkey of e or its delegator is in the whitelist wl
Listed(wl, e) ==
    e.pubkey \in wl \/ (e.delegated_by # NULL /\ e.delegated_by \in wl)

\* C14: with a pubkey whitelist configured the writer drops an event with a
\* blocked reply, neither persisting nor broadcasting it, exactly when neither
\* its pubkey nor its delegated_by is in the whitelist; an event whose pubkey
\* or delegated_by is listed passes authorization.
C14_WhitelistAuthorization ==
    [][(TakesHead /\ settings.pubkey_whitelist # NULL)
        => LET e == Head(event_rx)
               blocked == notice_tx' = Append(notice_tx, Notice(e, "blocked"))
           IN  IF Listed(settings.pubkey_whitelist.some, e)
               THEN ~blocked
               ELSE /\ blocked
                    /\ event' = event
                    /\ tag' = tag
                    /\ wlog' = wlog
                    /\ bcast_tx' = bcast_tx]_vars


\* the ephemeral kinds: 20000 <= kind < 30000
EphemeralKinds == 20000..29999

\* C15: an event with 20000 <= kind < 30000 that passes authorization and
\* NIP-05 gating is published on the broadcast bus and is never passed to
\* write_event: the store never holds a row with an ephemeral kind.
C15_EphemeralNotStored ==
    /\ [](\A r \in event : r.kind \notin EphemeralKinds)
    /\ [](\A i \in DOMAIN wlog : wlog[i].e.kind \notin EphemeralKinds)
    /\ [][(TakesHead /\ Head(event_rx).kind \in EphemeralKinds)
            => LET e == Head(event_rx)
                   blocked == notice_tx' = Append(notice_tx, Notice(e, "blocked"))
                   published == bcast_tx' = Append(bcast_tx, e)
               IN  /\ event' = event /\ tag' = tag /\ wlog' = wlog
                   /\ published \/ blocked
                   /\ ~(published /\ blocked)
                   /\ (~Unauthorized(settings, e) /\ ~settings.nip05_enabled)
                        => published]_vars

\* events of the first and of the last ephemeral kind are on the bus, an event
\* of kind 30000 is stored, and nothing else is
C15_Witness ==
    /\ \E i \in DOMAIN bcast_tx : bcast_tx[i].kind = 20000
    /\ \E i \in DOMAIN bcast_tx : bcast_tx[i].kind = 29999
    /\ \E r \in event : r.kind = 30000
    /\ Cardinality(event) = 1
    /\ Len(wlog) = 1


\* C19: for every non-ephemeral event that reaches persistence the writer
\* publishes it iff write_event reported a count > 0, and the reply matches:
\* saved exactly when it was published, duplicate when the count was 0, error
\* (and no publication) when write_event failed.
C19_ReplyMatchesOutcome ==
    [][(TakesHead /\ wlog' # wlog)
        => LET e == Head(event_rx)
               res == wlog'[Len(wlog')].res
               published == bcast_tx' = Append(bcast_tx, e)
               reply(st) == notice_tx' = Append(notice_tx, Notice(e, st))
           IN  /\ ~IsEphemeral(e.kind)
               /\ wlog' = Append(wlog, [e |-> e, res |-> res])
               /\ published \/ bcast_tx' = bcast_tx
               /\ published <=> (res.ok /\ res.n > 0)
               /\ published <=> reply("saved")
               /\ (res.ok /\ res.n = 0) => reply("duplicate")
               /\ ~res.ok => reply("error")]_vars

\* one event was answered error, then saved, then duplicate, and is on the
\* bus once
C19_Witness ==
    \E e \in WriterEvents :
        /\ StatusesFrom(notice_tx, e) = <<"error", "saved", "duplicate">>
        /\ Published(e) = 1
        /\ Len(wlog) = 3
        /\ Len(bcast_tx) = 1


\* the deletion d, of the author of e, names the id of e in an "e" tag
Names(d, e) ==
    /\ d.kind = 5
    /\ d.pubkey = e.pubkey
    /\ \E i \in DOMAIN d.tags : Len(d.tags[i]) >= 2 /\ d.tags[i][1] = "e"
                                  /\ d.tags[i][2] = e.id

\* the i-th write stores e for the first time, after a deletion naming it
WrittenUnderDeletion(i) ==
    /\ wlog[i].res.ok
    /\ wlog[i].e.kind # 5
    /\ \A k \in 1..(i - 1) : wlog[k].e = wlog[i].e => ~wlog[k].res.ok
    /\ \E j \in 1..(i - 1) : IsCommitted(wlog[j]) /\ Names(wlog[j].e, wlog[i].e)

\* C20: a non-deletion event whose id is already referenced by a stored
\* kind-5 event of the same author is stored with hidden = true, write_event
\* returns 0 for it, and it is never published on the broadcast bus.
C20_StoredHiddenUnderDeletion ==
    \A i \in DOMAIN wlog :
        WrittenUnderDeletion(i)
        => /\ wlog[i].res.n = 0
           /\ RowsOf(wlog[i].e) # {}
           /\ \A r \in RowsOf(wlog[i].e) : r.hidden
           /\ Published(wlog[i].e) = 0


\* the ephemeral events published so far
EphemeralPublished ==
    Cardinality({i \in DOMAIN bcast_tx : bcast_tx[i].kind \in EphemeralKinds})

\* C23: with a writes-per-second quota configured, exhausting the quota drops
\* no event: the event whose write hit the limit stays persisted and
\* answered, and the events queued behind it stay queued, in order, and are
\* taken by the writer after the sleep.
C23_RateLimitNeverDrops ==
    /\ [](RateLimited(settings)
            => Len(notice_tx) + EphemeralPublished + Len(event_rx) = submitted)
    /\ [][sleeps' = sleeps + 1
            => /\ TakesHead
               /\ writer_pc' = "loop"
               /\ bcast_tx' = Append(bcast_tx, Head(event_rx))
               /\ Head(event_rx).kind \notin EphemeralKinds
                    => /\ notice_tx' = Append(notice_tx,
                                              Notice(Head(event_rx), "saved"))
                       /\ \E r \in event' : r.content = Head(event_rx)]_vars
    /\ [][\/ event_rx' = event_rx
          \/ event_rx # <<>> /\ event_rx' = Tail(event_rx)
          \/ \E e \in WriterEvents : event_rx' = Append(event_rx, e)]_vars

\* the writer slept after each of two writes while events were queued, and
\* has since handled every event submitted
C23_Witness ==
    /\ RateLimited(settings)
    /\ sleeps = 2
    /\ submitted = 3
    /\ event_rx = <<>>
    /\ Len(notice_tx) = 3
    /\ \A i \in DOMAIN notice_tx : notice_tx[i].status = "saved"
    /\ Cardinality(event) = 3


(***************************************************************************)
(* The writer near the optimization trigger.  The behaviours start after   *)
(* the writer has handled n events, one after the other, whose writes all  *)
(* succeeded or all failed, with n just below the trigger.                 *)
(***************************************************************************)
\* the i-th event handled before the behaviour starts: a text note
EarlierEvent(i) == Ev(1000 + i, PkA, 1, 1, <<>>, NULL)

\* the writer and the repository after n writes in a row, all ok or all failed
WriterAfter(n, ok) ==
    /\ settings = DefaultSettings
    /\ event = IF ok THEN {EventRow(EarlierEvent(i)) : i \in 1..n} ELSE {}
    /\ tag = {}
    /\ wlog = [i \in 1..n |-> [e |-> EarlierEvent(i),
                                res |-> IF ok THEN Ok(1) ELSE Err]]
    /\ bcast_tx = IF ok THEN [i \in 1..n |-> EarlierEvent(i)] ELSE <<>>
    /\ notice_tx = [i \in 1..n |->
                      Notice(EarlierEvent(i), IF ok THEN "saved" ELSE "error")]
    /\ metadata_tx = <<>>
    /\ optimize_counter = n
    /\ optimize_runs = 0
    /\ event_rx = <<>>
    /\ submitted = 0
    /\ senders_open = TRUE
    /\ shutdown = FALSE
    /\ writer_pc = "loop"
    /\ sleeps = 0
    /\ consumers = [c \in Consumers |-> [pos |-> 0, got |-> <<>>]]

\* the events submitted near the trigger: two notes
OptimizeEvents == {EventTable[i] : i \in {5, 7}}

InitOptimize ==
    /\ ConnInit
    /\ \E n \in {EVENT_COUNT_OPTIMIZE_TRIGGER - 1, EVENT_COUNT_OPTIMIZE_TRIGGER},
          ok \in BOOLEAN : WriterAfter(n, ok)

NextOptimize ==
    \/ \E e \in OptimizeEvents : Submit(e)
    \/ WriterLoop
    \/ \E fail \in BOOLEAN, optfail \in OptfailChoices :
           WriterEvent("valid", fail, FALSE, optfail)

SpecOptimize == InitOptimize /\ [][NextOptimize]_vars

\* the number of write_event calls that returned a count > 0
Commits(w) == Cardinality({i \in DOMAIN w : IsCommitted(w[i])})

\* C22: the writer runs the maintenance hook once every
\* EVENT_COUNT_OPTIMIZE_TRIGGER (500) successful writes: the hook runs exactly
\* when the number of successful writes since its last run reaches 500;
\* duplicate, blocked and failed submissions do not count.
C22_OptimizeEvery500Writes ==
    [][optimize_runs = 0
        => ((optimize_runs' = optimize_runs + 1)
             <=> (/\ Commits(wlog) = EVENT_COUNT_OPTIMIZE_TRIGGER - 1
                  /\ Commits(wlog') = EVENT_COUNT_OPTIMIZE_TRIGGER))]_vars

LifecycleEvents == {EventTable[i] : i \in {5, 14}}

InitLifecycle == RepoInit /\ ConnInit /\ WriterStart(DefaultSettings)

\* the writer takes the event at the head of the channel
WriterTakes == \E fail \in BOOLEAN : WriterEvent("valid", fail, FALSE, FALSE)

NextLifecycle ==
    \/ \E e \in LifecycleEvents : Submit(e)
    \/ WriterLoop
    \/ WriterTakes
    \/ WriterClosed
    \/ SendShutdown
    \/ CloseChannel

SpecLifecycle ==
    /\ InitLifecycle
    /\ [][NextLifecycle]_vars
    /\ WF_vars(WriterLoop)
    /\ WF_vars(WriterTakes)
    /\ WF_vars(WriterClosed)

\* C24: once the shutdown signal has been sent, the writer eventually leaves
\* its loop and exits, whether or not a further event is submitted and while
\* the submission channel is still open.
C24_ShutdownStopsWriter == shutdown ~> (writer_pc = "exit")


(***************************************************************************)
(* The writer with NIP-05 checking active: with or without a whitelist,    *)
(* in passive mode (nip05_enabled false) or gating mode.                   *)
(***************************************************************************)
GateSettings ==
    [pubkey_whitelist : {NULL, Some({PkA})},
     nip05_active : {TRUE},
     nip05_enabled : BOOLEAN,
     messages_per_sec : {NULL}]

\* two metadata events of A, one of B, and a note
GateEvents == {EventTable[i] : i \in {1, 2, 4, 5}}

InitGate == RepoInit /\ ConnInit /\ \E s \in GateSettings : WriterStart(s)

NextGate ==
    \/ \E e \in GateEvents : Submit(e)
    \/ WriterLoop
    \/ \E uv \in UvChoices, fail \in BOOLEAN : WriterEvent(uv, fail, FALSE, FALSE)

SpecGate == InitGate /\ [][NextGate]_vars

\* the writer's whitelist check lets e through
PassesWhitelist(e) ==
    settings.pubkey_whitelist = NULL \/ e.pubkey \in settings.pubkey_whitelist.some

\* C26: when NIP-05 checking is active, every kind-0 event that passed the
\* whitelist check is forwarded to the NIP-05 worker channel, whether gating
\* then admits or blocks it (the handling of the event sends it once,
\* whatever reply it ends with); no other event is forwarded.
C26_MetadataForwardedBeforeGating ==
    [][(TakesHead /\ settings.nip05_active)
        => IF Head(event_rx).kind = 0 /\ PassesWhitelist(Head(event_rx))
           THEN metadata_tx' = Append(metadata_tx, Head(event_rx))
           ELSE metadata_tx' = metadata_tx]_vars

\* with A listed and gating on, A's first metadata event was blocked by the
\* gate and the second admitted and saved: both were forwarded
C26_Witness ==
    /\ settings.pubkey_whitelist = Some({PkA})
    /\ settings.nip05_enabled
    /\ metadata_tx = <<EventTable[1], EventTable[2]>>
    /\ notice_tx = <<Notice(EventTable[1], "blocked"), Notice(EventTable[2], "saved")>>
    /\ bcast_tx = <<EventTable[2]>>


(***************************************************************************)
(* The broadcast bus and its consumers.  The bus is a tokio broadcast      *)
(* channel: it retains the last BusCap values sent; a receiver reads the   *)
(* values after its position in order, and one that fell more than BusCap  *)
(* behind is told so and continues at the oldest value retained.           *)
(***************************************************************************)
\* capacity of the broadcast channel
BusCap == 2

\* Receiver::recv returns the next value
BusRecv(c) ==
    /\ consumers[c].pos < Len(bcast_tx)
    /\ Len(bcast_tx) - consumers[c].pos <= BusCap
    /\ consumers' = [consumers EXCEPT
                       ![c] = [pos |-> @.pos + 1,
                               got |-> Append(@.got, bcast_tx[@.pos + 1])]]
    /\ UNCHANGED <<settings, event_rx, submitted, senders_open, bcast_tx,
                   metadata_tx, notice_tx, optimize_counter, optimize_runs,
                   shutdown, writer_pc, sleeps, repo_vars, conn_vars>>

\* Receiver::recv returns RecvError::Lagged: the values lost are skipped
BusLagged(c) ==
    /\ Len(bcast_tx) - consumers[c].pos > BusCap
    /\ consumers' = [consumers EXCEPT ![c].pos = Len(bcast_tx) - BusCap]
    /\ UNCHANGED <<settings, event_rx, submitted, senders_open, bcast_tx,
                   metadata_tx, notice_tx, optimize_counter, optimize_runs,
                   shutdown, writer_pc, sleeps, repo_vars, conn_vars>>

\* the events handlers submit while the bus is watched: two stored kinds, a
\* deletion and an ephemeral one
BusEvents == {EventTable[i] : i \in {5, 7, 10, 14}}

InitBus == RepoInit /\ ConnInit /\ WriterStart(DefaultSettings)

NextBus ==
    \/ \E e \in BusEvents : Submit(e)
    \/ WriterLoop
    \/ \E fail \in BOOLEAN : WriterEvent("valid", fail, FALSE, FALSE)
    \/ \E c \in Consumers : BusRecv(c)
    \/ \E c \in Consumers : BusLagged(c)

SpecBus == InitBus /\ [][NextBus]_vars

\* the events the writer committed (write_event returned a count > 0), in order
CommitOrder ==
    LET c == SelectSeq(wlog, IsCommitted) IN [i \in DOMAIN c |-> c[i].e]

\* the stored events on the bus, in order
IsStoredKind(e) == ~IsEphemeral(e.kind)
BusStoredOrder == SelectSeq(bcast_tx, IsStoredKind)

\* a is b with some elements left out
RECURSIVE IsSubSeq(_, _)
IsSubSeq(a, b) ==
    IF a = <<>> THEN TRUE
    ELSE IF b = <<>> THEN FALSE
    ELSE IF Head(a) = Head(b) THEN IsSubSeq(Tail(a), Tail(b))
    ELSE IsSubSeq(a, Tail(b))

\* C13: the order of the events on the broadcast bus is the order in which
\* the writer committed them (for ephemeral events: accepted them), and every
\* consumer receives its events in that order, however handlers interleave.
C13_BroadcastOrder ==
    /\ [](BusStoredOrder = CommitOrder)
    /\ [](\A c \in Consumers : IsSubSeq(consumers[c].got, bcast_tx))
    /\ [][\/ bcast_tx' = bcast_tx
          \/ /\ writer_pc = "recv"
             /\ event_rx # <<>>
             /\ bcast_tx' = Append(bcast_tx, Head(event_rx))]_vars

\* three different events are on the bus, a stored one before and after an
\* ephemeral one; one consumer got them all, the other lagged and lost the first
C13_Witness ==
    /\ Len(bcast_tx) = 3
    /\ Len(CommitOrder) = 2
    /\ CommitOrder[1] # CommitOrder[2]
    /\ IsEphemeral(bcast_tx[2].kind)
    /\ consumers["c1"].got = bcast_tx
    /\ consumers["c2"].pos = 3
    /\ consumers["c2"].got = <<bcast_tx[2], bcast_tx[3]>>


(***************************************************************************)
(* ClientConn: subscriptions (conn.rs)                                     *)
(***************************************************************************)
\* A subscription identifier has a maximum length
MAX_SUBSCRIPTION_ID_LEN == 256

\* ClientConn.max_subs, as ClientConn::new sets it
max_subs == 32

\* a subscription id is a string: not hex, n characters, named by b
SubId(n, b) == Str("none", n, b)

Subscription(id, filters) == [id |-> id, filters |-> filters]

\* HashMap::remove and HashMap::insert
MapRemove(m, k) == [x \in DOMAIN m \ {k} |-> m[x]]
MapInsert(m, k, v) == [x \in DOMAIN m \cup {k} |-> IF x = k THEN v ELSE m[x]]

\* subscribe with `>` for `>=` in the test for room
subscribe_RoomOffByOne(subs, s) ==
    LET k == s.id
    IN  IF k.len > MAX_SUBSCRIPTION_ID_LEN
        THEN [subscriptions |-> subs, res |-> "SubIdMaxLengthError"]
        ELSE IF k \in DOMAIN subs
        THEN [subscriptions |-> MapInsert(MapRemove(subs, k), k, s), res |-> "Ok"]
        ELSE IF Cardinality(DOMAIN subs) > max_subs
        THEN [subscriptions |-> subs, res |-> "SubMaxExceededError"]
        ELSE [subscriptions |-> MapInsert(subs, k, s), res |-> "Ok"]

\* ClientConn::subscribe: the map after it and its result
subscribe(subs, s) ==
    LET k == s.id
    IN  IF k.len > MAX_SUBSCRIPTION_ID_LEN
        THEN [subscriptions |-> subs, res |-> "SubIdMaxLengthError"]
        ELSE IF k \in DOMAIN subs
        THEN [subscriptions |-> MapInsert(MapRemove(subs, k), k, s), res |-> "Ok"]
        ELSE IF Cardinality(DOMAIN subs) >= max_subs
        THEN [subscriptions |-> subs, res |-> "SubMaxExceededError"]
        ELSE [subscriptions |-> MapInsert(subs, k, s), res |-> "Ok"]

\* ClientConn::unsubscribe
unsubscribe(subs, c) == MapRemove(subs, c.id)

\* The client's requests.  It names most of its subscriptions in a fixed
\* order (the filler ids) and uses a few ids of its own choice: a short one,
\* one of the maximum length, one that is too long, and the empty one.
FillerId(i) == SubId(3, 10 + i)
FillerIds == {FillerId(i) : i \in 1..max_subs}
ChosenIds ==
    {SubId(1, 1), SubId(MAX_SUBSCRIPTION_ID_LEN, 2),
     SubId(MAX_SUBSCRIPTION_ID_LEN + 1, 3), SubId(0, 0)}
FilterSets == {"f1", "f2"}

\* the first filler id not in use, if any is left
NextFiller(subs) ==
    {FillerId(i) : i \in {j \in 1..max_subs :
        /\ FillerId(j) \notin DOMAIN subs
        /\ \A h \in 1..(j - 1) : FillerId(h) \in DOMAIN subs}}

\* the last filler id in use, if any
LastFiller(subs) ==
    {FillerId(i) : i \in {j \in 1..max_subs :
        /\ FillerId(j) \in DOMAIN subs
        /\ \A h \in (j + 1)..max_subs : FillerId(h) \notin DOMAIN subs}}

Subscribe(s) ==
    /\ LET r == subscribe(subscriptions, s)
       IN  /\ subscriptions' = r.subscriptions
           /\ last' = [op |-> "subscribe", sub |-> s, res |-> r.res,
                       had |-> s.id \in DOMAIN subscriptions,
                       size |-> Cardinality(DOMAIN subscriptions)]
    /\ UNCHANGED <<auth, repo_vars, writer_vars>>

Unsubscribe(c) ==
    /\ subscriptions' = unsubscribe(subscriptions, c)
    /\ last' = [op |-> "unsubscribe", id |-> c.id]
    /\ UNCHANGED <<auth, repo_vars, writer_vars>>

InitSubs == RepoInit /\ WriterStart(DefaultSettings) /\ ConnInit

NextSubs ==
    \/ \E id \in ChosenIds, f \in FilterSets : Subscribe(Subscription(id, f))
    \/ \E id \in NextFiller(subscriptions) : Subscribe(Subscription(id, "f1"))
    \/ \E id \in ChosenIds \cup LastFiller(subscriptions) : Unsubscribe([id |-> id])

SpecSubs == InitSubs /\ [][NextSubs]_vars

\* C5: the subscription map never holds more than max_subs entries; a
\* subscribe of an id already in the map succeeds, stores the new subscription
\* and leaves the size of the map unchanged, also when the map is full; a
\* subscribe of a new id on a full map fails with SubMaxExceededError.
C5_SubscriptionCap ==
    /\ [](Cardinality(DOMAIN subscriptions) <= max_subs)
    /\ [][\A s \in [id : ChosenIds \cup FillerIds, filters : FilterSets] :
            (last'.op = "subscribe" /\ last'.sub = s)
            => /\ s.id \in DOMAIN subscriptions
                  => /\ last'.res = "Ok"
                     /\ subscriptions'[s.id] = s
                     /\ DOMAIN subscriptions' = DOMAIN subscriptions
               /\ (s.id \notin DOMAIN subscriptions
                   /\ Cardinality(DOMAIN subscriptions) = max_subs
                   /\ s.id.len <= MAX_SUBSCRIPTION_ID_LEN)
                  => /\ last'.res = "SubMaxExceededError"
                     /\ subscriptions' = subscriptions]_<<subscriptions, last>>

\* a subscription was replaced while the map was full
C5_Witness ==
    /\ last.op = "subscribe"
    /\ last.had
    /\ last.res = "Ok"
    /\ last.size = max_subs
    /\ Cardinality(DOMAIN subscriptions) = max_subs
    /\ subscriptions[last.sub.id] = last.sub


\* C11: a subscribe whose sub_id is empty or longer than 256 bytes is rejected
\* (with SubIdMaxLengthError when it is too long) and is not installed; a
\* sub_id of exactly 256 bytes is accepted when the map has room or already
\* holds that id.
C11_SubIdLength ==
    last.op = "subscribe"
    => LET k == last.sub.id
       IN  /\ (k.len = 0 \/ k.len > MAX_SUBSCRIPTION_ID_LEN)
                => /\ last.res # "Ok"
                   /\ k \notin DOMAIN subscriptions
           /\ k.len > MAX_SUBSCRIPTION_ID_LEN => last.res = "SubIdMaxLengthError"
           /\ (k.len = MAX_SUBSCRIPTION_ID_LEN /\ (last.had \/ last.size < max_subs))
                => /\ last.res = "Ok"
                   /\ k \in DOMAIN subscriptions
                   /\ subscriptions[k] = last.sub


(***************************************************************************)
(* ClientConn: NIP-42 authentication (conn.rs)                             *)
(***************************************************************************)
\* URLs, as strings; utils::host_str parses one and returns its host
RelayUrl == Str("none", 20, 500)        \* wss://relay.example/
RelayUrlPath == Str("none", 25, 501)    \* wss://relay.example/inbox
OtherUrl == Str("none", 20, 502)        \* wss://other.example/
NotUrl == Str("none", 13, 503)          \* relay.example (no scheme: no URL)

host_str(url) ==
    IF url \in {RelayUrl, RelayUrlPath} THEN Some("relay.example")
    ELSE IF url = OtherUrl THEN Some("other.example")
    ELSE NULL

\* the kind of an AUTH event
AuthKind == 22242

\* seconds an AUTH event may lie in the past or in the future
AuthWindow == 600

\* a nonce: the text of a UUID
Nonce(b) == Str("none", 36, b)
Nonces == {Nonce(601), Nonce(602)}

\* the value of the last tag row [name, value] of exactly two fields, if any
RECURSIVE LastTagValue(_, _, _)
LastTagValue(tgs, name, i) ==
    IF i = 0 THEN NULL
    ELSE IF Len(tgs[i]) = 2 /\ tgs[i][1] = name THEN Some(tgs[i][2])
    ELSE LastTagValue(tgs, name, i - 1)

\* created_at lies within the cutoffs around curr_time
TimeOk_Exclusive(e, now) ==
    ~(e.created_at <= now - AuthWindow \/ e.created_at >= now + AuthWindow)

TimeOk(e, now) ==
    ~(e.created_at < now - AuthWindow \/ e.created_at > now + AuthWindow)

\* the challenge tag is there and equals the challenge sent
ChallengeOk(a, e) ==
    LET challenge == LastTagValue(e.tags, "challenge", Len(e.tags))
    IN  challenge # NULL /\ a.state = "Challenge" /\ challenge.some = a.nonce

\* the relay tag is there, both URLs have a host, and the hosts are equal
RelayOk(e, relay_url) ==
    LET relay == LastTagValue(e.tags, "relay", Len(e.tags))
        received == IF relay = NULL THEN NULL ELSE host_str(relay.some)
        ours == host_str(relay_url)
    IN  received # NULL /\ ours # NULL /\ received = ours

AuthResult(a, r) == [auth |-> a, res |-> r]

\* authenticate with the NoAuth arm falling through like the Challenge arm
authenticate_NoAuthFallsThrough(a, e, relay_url, now, valid) ==
    IF a.state = "AuthPubkey" THEN AuthResult(a, "Ok")
    ELSE IF ~valid THEN AuthResult(a, "AuthFailure")
    ELSE IF e.kind # AuthKind THEN AuthResult(a, "AuthFailure")
    ELSE IF ~TimeOk(e, now) THEN AuthResult(a, "AuthFailure")
    ELSE IF a.state = "Challenge" /\ ~ChallengeOk(a, e) THEN AuthResult(a, "AuthFailure")
    ELSE IF ~RelayOk(e, relay_url) THEN AuthResult(a, "AuthFailure")
    ELSE AuthResult(AuthPubkey(e.pubkey), "Ok")

\* authenticate with the state assigned before the relay tag is checked
authenticate_AssignsEarly(a, e, relay_url, now, valid) ==
    IF a.state = "AuthPubkey" THEN AuthResult(a, "Ok")
    ELSE IF a.state = "NoAuth" THEN AuthResult(a, "AuthFailure")
    ELSE IF ~valid THEN AuthResult(a, "AuthFailure")
    ELSE IF e.kind # AuthKind THEN AuthResult(a, "AuthFailure")
    ELSE IF ~TimeOk(e, now) THEN AuthResult(a, "AuthFailure")
    ELSE IF ~ChallengeOk(a, e) THEN AuthResult(a, "AuthFailure")
    ELSE IF ~RelayOk(e, relay_url) THEN AuthResult(AuthPubkey(e.pubkey), "AuthFailure")
    ELSE AuthResult(AuthPubkey(e.pubkey), "Ok")

\* authenticate with the AuthPubkey arm falling through like the Challenge arm
authenticate_Revalidates(a, e, relay_url, now, valid) ==
    IF a.state = "NoAuth" THEN AuthResult(a, "AuthFailure")
    ELSE IF ~valid THEN AuthResult(a, "AuthFailure")
    ELSE IF e.kind # AuthKind THEN AuthResult(a, "AuthFailure")
    ELSE IF ~TimeOk(e, now) THEN AuthResult(a, "AuthFailure")
    ELSE IF a.state = "Challenge" /\ ~ChallengeOk(a, e) THEN AuthResult(a, "AuthFailure")
    ELSE IF ~RelayOk(e, relay_url) THEN AuthResult(a, "AuthFailure")
    ELSE AuthResult(AuthPubkey(e.pubkey), "Ok")

\* ClientConn::authenticate: the auth state after it and its result.
\*   now    what unix_time() returns
\*   valid  whether event.validate() is Ok
authenticate(a, e, relay_url, now, valid) ==
    IF a.state = "AuthPubkey" THEN AuthResult(a, "Ok")
    ELSE IF a.state = "NoAuth" THEN AuthResult(a, "AuthFailure")
    ELSE IF ~valid THEN AuthResult(a, "AuthFailure")
    ELSE IF e.kind # AuthKind THEN AuthResult(a, "AuthFailure")
    ELSE IF ~TimeOk(e, now) THEN AuthResult(a, "AuthFailure")
    ELSE IF ~ChallengeOk(a, e) THEN AuthResult(a, "AuthFailure")
    ELSE IF ~RelayOk(e, relay_url) THEN AuthResult(a, "AuthFailure")
    ELSE AuthResult(AuthPubkey(e.pubkey), "Ok")

\* ClientConn::generate_auth_challenge, n the text of the new UUID
GenerateAuthChallenge(n) ==
    /\ auth' = Challenge(n)
    /\ last' = [op |-> "generate_auth_challenge", before |-> auth]
    /\ UNCHANGED <<subscriptions, repo_vars, writer_vars>>

Authenticate(e, relay_url, now, valid) ==
    /\ LET r == authenticate(auth, e, relay_url, now, valid)
       IN  /\ auth' = r.auth
           /\ last' = [op |-> "authenticate", before |-> auth, event |-> e,
                       relay_url |-> relay_url, now |-> now, valid |-> valid,
                       res |-> r.res]
    /\ UNCHANGED <<subscriptions, repo_vars, writer_vars>>

\* The AUTH events clients send.
ChallengeTag(n) == <<"challenge", n>>
RelayTag(u) == <<"relay", u>>
AuthTagLists ==
    { << ChallengeTag(n), RelayTag(RelayUrl) >> : n \in Nonces }
    \cup
    { << RelayTag(RelayUrlPath), ChallengeTag(Nonce(601)) >>,
      << ChallengeTag(Nonce(602)), ChallengeTag(Nonce(601)), RelayTag(RelayUrl) >>,
      << ChallengeTag(Nonce(601)), RelayTag(OtherUrl), RelayTag(RelayUrl) >>,
      << ChallengeTag(Nonce(601)), RelayTag(OtherUrl) >>,
      << ChallengeTag(Nonce(601)), RelayTag(NotUrl) >>,
      << ChallengeTag(Nonce(601)) >>,
      << RelayTag(RelayUrl) >>,
      << <<"challenge", Nonce(601), Nonce(601)>>, RelayTag(RelayUrl) >>,
      << >> }

\* the times unix_time() returns, and created_at relative to it
Clock == {1700000000}
TimeOffsets == {0 - AuthWindow - 1, 0 - AuthWindow, 0, AuthWindow, AuthWindow + 1}

AuthEvents(now) ==
    {Ev(700, pk, k, now + off, tgs, NULL) :
        pk \in {PkA, PkB}, k \in {AuthKind, 1}, off \in TimeOffsets,
        tgs \in AuthTagLists}

\* the relay_url of the settings
OwnUrls == {RelayUrl, NotUrl}

InitAuth == RepoInit /\ WriterStart(DefaultSettings) /\ ConnInit

NextAuth ==
    \/ \E n \in Nonces : GenerateAuthChallenge(n)
    \/ \E now \in Clock : \E e \in AuthEvents(now), u \in OwnUrls, valid \in BOOLEAN :
           Authenticate(e, u, now, valid)

SpecAuth == InitAuth /\ [][NextAuth]_vars


(***************************************************************************)
(* Claims about authentication                                             *)
(***************************************************************************)
\* the last call was authenticate
Authenticated == last.op = "authenticate"

\* the event is a well-formed AUTH event for the challenge n and this relay
WellFormedAuth(e, n) ==
    e.kind = AuthKind /\ e.tags = << ChallengeTag(n), RelayTag(RelayUrl) >>

\* C6: no operation moves a connection from NoAuth directly to AuthPubkey:
\* a connection that becomes AuthPubkey was in Challenge just before the
\* authenticate call that set it, and authenticate in NoAuth always fails.
C6_NoAuthNeverAuthenticates ==
    /\ []((Authenticated /\ last.before = NoAuth)
            => (last.res = "AuthFailure" /\ auth.state # "AuthPubkey"))
    /\ [][auth.state = "NoAuth" => auth'.state # "AuthPubkey"]_vars
    /\ [][(auth'.state = "AuthPubkey" /\ auth' # auth)
            => (auth.state = "Challenge" /\ last'.op = "authenticate")]_vars

\* a well-formed, valid AUTH event was presented in NoAuth and refused
C6_Witness ==
    /\ Authenticated
    /\ last.before = NoAuth
    /\ last.valid
    /\ last.relay_url = RelayUrl
    /\ last.event.created_at = last.now
    /\ \E n \in Nonces : WellFormedAuth(last.event, n)
    /\ last.res = "AuthFailure"
    /\ auth = NoAuth

\* C7: an authenticate call that returns AuthFailure leaves the auth state
\* as it was before the call.
C7_FailureKeepsState ==
    (Authenticated /\ last.res = "AuthFailure") => auth = last.before

\* an AUTH event that passed every check but the last (the relay tag) was
\* refused in Challenge, and the challenge is still the one sent
C7_Witness ==
    /\ Authenticated
    /\ last.before.state = "Challenge"
    /\ last.valid
    /\ last.event.kind = AuthKind
    /\ last.event.created_at = last.now
    /\ last.event.tags = << ChallengeTag(last.before.nonce), RelayTag(OtherUrl) >>
    /\ last.relay_url = RelayUrl
    /\ last.res = "AuthFailure"
    /\ auth = last.before

\* the values of the tag rows with this name
TagValues(e, name) == {i \in DOMAIN e.tags : e.tags[i][1] = name}

\* C8: authenticate moves Challenge(n) to AuthPubkey only for an event of
\* kind 22242 with exactly one challenge tag, whose value is n, and exactly
\* one relay tag, whose host is the host of the relay's own URL.
C8_ExactlyOneChallengeAndRelay ==
    (Authenticated /\ last.before.state = "Challenge" /\ auth.state = "AuthPubkey")
    => LET e == last.event
       IN  /\ e.kind = AuthKind
           /\ Cardinality(TagValues(e, "challenge")) = 1
           /\ \A i \in TagValues(e, "challenge") :
                 Len(e.tags[i]) = 2 /\ e.tags[i][2] = last.before.nonce
           /\ Cardinality(TagValues(e, "relay")) = 1
           /\ \A i \in TagValues(e, "relay") :
                 /\ Len(e.tags[i]) = 2
                 /\ host_str(e.tags[i][2]) # NULL
                 /\ host_str(e.tags[i][2]) = host_str(last.relay_url)

\* C9: for an otherwise valid AUTH event presented in Challenge, authenticate
\* succeeds when created_at is now - 600 or now + 600 and fails with
\* AuthFailure when it is now - 601 or now + 601.
C9_TimeWindowBoundary ==
    (/\ Authenticated
     /\ last.before.state = "Challenge"
     /\ last.valid
     /\ last.relay_url = RelayUrl
     /\ WellFormedAuth(last.event, last.before.nonce))
    => LET t == last.event.created_at
           now == last.now
       IN  /\ t \in {now - AuthWindow, now + AuthWindow}
                => (last.res = "Ok" /\ auth = AuthPubkey(last.event.pubkey))
           /\ t \in {now - (AuthWindow + 1), now + (AuthWindow + 1)}
                => last.res = "AuthFailure"

\* an AUTH event created exactly 600 seconds before now was accepted
C9_Witness ==
    /\ Authenticated
    /\ last.before.state = "Challenge"
    /\ last.valid
    /\ last.relay_url = RelayUrl
    /\ WellFormedAuth(last.event, last.before.nonce)
    /\ last.event.created_at = last.now - AuthWindow
    /\ last.res = "Ok"
    /\ auth = AuthPubkey(last.event.pubkey)

\* C10: once the connection is AuthPubkey(pk), every authenticate call returns
\* success and leaves the state AuthPubkey(pk).
C10_RepeatedAuthIsNoOp ==
    (Authenticated /\ last.before.state = "AuthPubkey")
    => (last.res = "Ok" /\ auth = last.before)

\* an authenticated connection was sent an event that is not valid and is
\* signed by another key: the call succeeded and the pubkey is the old one
C10_Witness ==
    /\ Authenticated
    /\ last.before.state = "AuthPubkey"
    /\ ~last.valid
    /\ last.event.pubkey # last.before.pubkey
    /\ last.res = "Ok"
    /\ auth = last.before

\* C28: once the connection is AuthPubkey(pk) it stays AuthPubkey(pk) under
\* every generate_auth_challenge and authenticate call: an authenticated
\* connection never returns to Challenge or NoAuth.
C28_AuthPubkeyIsFinal == [][auth.state = "AuthPubkey" => auth' = auth]_vars


(***************************************************************************)
(* query_from_filter (postgres.rs).  The function writes the text of a     *)
(* SELECT: conditions joined by " AND " and " OR " without parentheses     *)
(* around a group.  The WHERE clause is modelled as that list of           *)
(* conditions and connectives, and it is evaluated as SQL reads it: AND    *)
(* binds tighter than OR.  A text that is no SQL expression (a connective  *)
(* with no condition beside it, an unbalanced parenthesis) makes the query *)
(* fail.                                                                   *)
(***************************************************************************)
\* a ReqFilter; a constraint that is not given is NULL
ReqFilter(au, ki, ids, tgs, si, un, li) ==
    [force_no_match |-> FALSE, authors |-> au, kinds |-> ki, ids |-> ids,
     tags |-> tgs, since |-> si, until |-> un, limit |-> li]

\* hexrange::hex_range: how a hex prefix is searched for
hex_range(s) ==
    IF ~is_hex(s) \/ s.len = 0 \/ s.len > HexIdLen THEN NULL
    ELSE IF s.len = HexIdLen THEN [search |-> "Exact", v |-> hex_decode(s)]
    ELSE IF s.len % 2 = 0 THEN [search |-> "Range", v |-> s]
    ELSE [search |-> "LowerOnly", v |-> s]

\* which 32-byte values begin with a prefix, and which lie above one: the
\* prefix 920 begins the ids of events 5 and 6, the odd prefix 921 lies
\* below the ids of events 2, 5 and 6
IdPrefix == Str("lower", 2, 920)
OddPrefix == Str("lower", 1, 921)
PrefixPairs == {<<920, 5>>, <<920, 6>>}
AbovePairs == {<<921, 2>>, <<921, 5>>, <<921, 6>>}

\* x > lower AND x < upper, for the bounds of the prefix p
InRange(x, p) == x # NULL /\ <<p.body, x.bytes>> \in PrefixPairs

\* x > lower, for the lower bound of the prefix p
AboveLower(x, p) == x # NULL /\ <<p.body, x.bytes>> \in AbovePairs

AND == [conn |-> "AND"]
OR == [conn |-> "OR"]
IsConn(t) == "conn" \in DOMAIN t

\* " AND " is pushed before a condition when push_and is set
PushAnd(push_and) == IF push_and THEN <<AND>> ELSE <<>>

\* query.separated(" OR "): the conditions pushed, with OR between them
RECURSIVE SeparatedOr(_)
SeparatedOr(conds) ==
    IF Len(conds) <= 1 THEN conds
    ELSE <<Head(conds), OR>> \o SeparatedOr(Tail(conds))

\* the condition pushed for one author: none if hex_range gives None.  The
\* text for a Range opens two parentheses and closes one.
AuthorCond(a) ==
    LET h == hex_range(a)
    IN  IF h = NULL THEN <<>>
        ELSE <<[col |-> "author", search |-> h.search, v |-> h.v,
                balanced |-> h.search # "Range"]>>

\* the condition pushed for one id prefix
IdCond(a) ==
    LET h == hex_range(a)
    IN  IF h = NULL THEN <<>>
        ELSE <<[col |-> "id", search |-> h.search, v |-> h.v, balanced |-> TRUE]>>

RECURSIVE Conds(_, _)
Conds(vals, col) ==
    IF vals = <<>> THEN <<>>
    ELSE (IF col = "author" THEN AuthorCond(Head(vals)) ELSE IdCond(Head(vals)))
         \o Conds(Tail(vals), col)

\* the value bound for a tag value: the text for odd-length values that are
\* not lowercase hex, else hex::decode(v).ok()
TagBind(v) == IF v.len % 2 # 0 /\ ~is_lower_hex(v) THEN v ELSE hex_decode(v)

\* the condition pushed for one (key, values) entry of the tag map.  Its text
\* opens four parentheses, "e.id IN (", "and (", "AND (" and "in (", and closes
\* three.
TagCond(kv) ==
    [col |-> "tag", name |-> kv.key,
     vals |-> {TagBind(kv.vals[i]) : i \in DOMAIN kv.vals}, balanced |-> FALSE]

\* the conditions of the WHERE clause and the connectives between them
WhereClause(f) ==
    LET given(c) == c # NULL /\ c.some # <<>>
        authors == IF f.authors = NULL THEN <<>>
                   ELSE SeparatedOr(Conds(f.authors.some, "author"))
        pa1 == given(f.authors)
        kinds == IF given(f.kinds)
                 THEN PushAnd(pa1)
                      \o <<[col |-> "kind", balanced |-> TRUE,
                            vals |-> {f.kinds.some[i] : i \in DOMAIN f.kinds.some}]>>
                 ELSE <<>>
        pa2 == pa1 \/ given(f.kinds)
        ids == IF given(f.ids)
               THEN PushAnd(pa2) \o SeparatedOr(Conds(f.ids.some, "id"))
               ELSE <<>>
        pa3 == pa2 \/ given(f.ids)
        tags == IF given(f.tags)
                THEN PushAnd(pa3)
                     \o [i \in DOMAIN f.tags.some |-> TagCond(f.tags.some[i])]
                ELSE <<>>
        pa4 == pa3 \/ given(f.tags)
        since == IF f.since # NULL
                 THEN PushAnd(pa4)
                      \o <<[col |-> "since", v |-> f.since.some, balanced |-> TRUE]>>
                 ELSE <<>>
        pa5 == pa4 \/ f.since # NULL
        until == IF f.until # NULL
                 THEN PushAnd(pa5)
                      \o <<[col |-> "until", v |-> f.until.some, balanced |-> TRUE]>>
                 ELSE <<>>
        pa6 == pa5 \/ f.until # NULL
    IN  authors \o kinds \o ids \o tags \o since \o until
        \o PushAnd(pa6) \o <<[col |-> "hidden", balanced |-> TRUE]>>


\* query_from_filter: None for a filter that is forced not to match, else
\* the query: its WHERE clause and its LIMIT
query_from_filter(f) ==
    IF f.force_no_match THEN NULL
    ELSE [where |-> WhereClause(f), limit |-> f.limit]

\* the text is an SQL expression: conditions with one connective between
\* each two, and every parenthesis closed
WellFormed(w) ==
    /\ Len(w) % 2 = 1
    /\ \A i \in DOMAIN w :
          IF i % 2 = 1 THEN ~IsConn(w[i]) /\ w[i].balanced ELSE IsConn(w[i])

\* one condition, on the row r
CondHolds(c, r, tg) ==
    CASE c.col = "author" ->
            (CASE c.search = "Exact" -> r.pub_key = c.v \/ r.delegated_by = c.v
               [] c.search = "LowerOnly" ->
                    AboveLower(r.pub_key, c.v) \/ AboveLower(r.delegated_by, c.v)
               [] OTHER -> InRange(r.pub_key, c.v) \/ InRange(r.delegated_by, c.v))
      [] c.col = "id" ->
            (CASE c.search = "Exact" -> r.id = c.v
               [] c.search = "LowerOnly" -> AboveLower(r.id, c.v)
               [] OTHER -> InRange(r.id, c.v))
      [] c.col = "kind" -> r.kind \in c.vals
      [] c.col = "tag" ->
            \E t \in tg : /\ t.event_id = r.id
                          /\ ~r.hidden
                          /\ t.name = c.name
                          /\ t.value \in c.vals
      [] c.col = "since" -> r.created_at > c.v
      [] c.col = "until" -> r.created_at < c.v
      [] OTHER -> ~r.hidden

\* the WHERE clause on the row r: AND binds tighter than OR, so the clause is
\* the OR of the runs of conditions that stand between two ORs
WhereHolds(w, r, tg) ==
    LET ors == {0, Len(w) + 1} \cup {i \in DOMAIN w : w[i] = OR}
    IN  \E lo, hi \in ors :
           /\ lo < hi
           /\ ~\E m \in ors : lo < m /\ m < hi
           /\ \A i \in (lo + 1)..(hi - 1) : IsConn(w[i]) \/ CondHolds(w[i], r, tg)

\* ORDER BY e.created_at DESC LIMIT n: the result sets a limit can leave
Newest(rows, n) ==
    {S \in SUBSET rows :
        /\ Cardinality(S) = IF n < Cardinality(rows) THEN n ELSE Cardinality(rows)
        /\ \A x \in S, y \in rows \ S : x.created_at >= y.created_at}

\* the results the database can give for the query q on tables ev, tg
QueryResults(ev, tg, q, fail) ==
    IF q = NULL THEN {[ok |-> TRUE, rows |-> {}]}
    ELSE IF fail \/ ~WellFormed(q.where) THEN {[ok |-> FALSE, rows |-> {}]}
    ELSE LET rows == {r \in ev : WhereHolds(q.where, r, tg)}
         IN  IF q.limit = NULL THEN {[ok |-> TRUE, rows |-> rows]}
             ELSE {[ok |-> TRUE, rows |-> S] : S \in Newest(rows, q.limit.some)}

\* a historical query for one filter of a subscription; the history keeps
\* the tables the query read
Query(f, fail) ==
    /\ \E res \in QueryResults(event, tag, query_from_filter(f), fail) :
          last' = [op |-> "query", filter |-> f, res |-> res,
                   event |-> event, tag |-> tag]
    /\ UNCHANGED <<subscriptions, auth, repo_vars, writer_vars>>

\* an unparseable prefix
NoHex == Str("none", 4, 930)

\* the filters clients ask with
Filters ==
    LET F(au, ki, ids, tgs, si, un, li) == ReqFilter(au, ki, ids, tgs, si, un, li)
        N == NULL
    IN  { F(N, N, N, N, N, N, N),
          F(Some(<<PkA>>), N, N, N, N, N, N),
          F(Some(<<PkB, PkA>>), Some(<<1>>), N, N, N, N, N),
          F(Some(<<PkA, PkB>>), N, N, N, N, N, N),
          F(Some(<<PkA>>), Some(<<0, 1>>), N, N, Some(1), Some(2), N),
          F(Some(<<PkA>>), N, Some(<<Hex32(6)>>), N, N, N, N),
          F(Some(<<NoHex>>), N, N, N, N, N, N),
          F(Some(<<NoHex, PkB>>), Some(<<0>>), N, N, N, N, N),
          F(Some(<<IdPrefix>>), N, N, N, N, N, N),
          F(Some(<<OddPrefix>>), N, N, N, N, N, N),
          F(Some(<<>>), Some(<<>>), Some(<<>>), Some(<<>>), N, N, N),
          F(N, Some(<<1>>), N, N, N, N, N),
          F(N, N, Some(<<Hex32(5)>>), N, N, N, N),
          F(N, Some(<<1>>), Some(<<Hex32(5), Hex32(4)>>), N, N, N, N),
          F(N, N, Some(<<IdPrefix>>), N, N, N, N),
          F(N, N, Some(<<OddPrefix>>), N, N, N, N),
          F(N, N, Some(<<NoHex>>), N, N, N, N),
          F(N, N, N, Some(<<[key |-> "p", vals |-> <<PkB>>]>>), N, N, N),
          F(N, N, N, N, Some(1), N, N),
          F(N, N, N, N, N, Some(1), N),
          F(N, N, N, N, Some(1), Some(1), N),
          F(N, Some(<<0>>), N, N, Some(1), Some(3), N),
          F(N, N, N, N, N, N, Some(1)),
          [F(N, N, N, N, N, N, N) EXCEPT !.force_no_match = TRUE] }

\* the events stored while queries are made
QueryEvents == {EventTable[i] : i \in {1, 2, 4, 5, 6}}

InitQuery == RepoInit /\ ConnInit /\ WriterStart(DefaultSettings)

NextQuery ==
    \/ \E e \in QueryEvents : RepoWrite(e, FALSE)
    \/ \E f \in Filters, fail \in BOOLEAN : Query(f, fail)

SpecQuery == InitQuery /\ [][NextQuery]_vars


(***************************************************************************)
(* Claims about the historical query                                       *)
(***************************************************************************)
\* the last call was a query that the database answered
Answered == last.op = "query" /\ ~last.filter.force_no_match /\ last.res.ok

\* the value x is selected by the hex prefix a
PrefixSelects(a, x) ==
    LET h == hex_range(a)
    IN  /\ h # NULL
        /\ CASE h.search = "Exact" -> x = h.v
             [] h.search = "Range" -> InRange(x, h.v)
             [] OTHER -> AboveLower(x, h.v)

\* a constraint that is specified: given, with at least one value
Specified(c) == c # NULL /\ c.some # <<>>

\* the constraints of the filter f other than its time bounds, on the row r
SatisfiesOthers(f, r, tg) ==
    /\ Specified(f.authors)
         => \E i \in DOMAIN f.authors.some :
               \/ PrefixSelects(f.authors.some[i], r.pub_key)
               \/ PrefixSelects(f.authors.some[i], r.delegated_by)
    /\ Specified(f.kinds)
         => \E i \in DOMAIN f.kinds.some : r.kind = f.kinds.some[i]
    /\ Specified(f.ids)
         => \E i \in DOMAIN f.ids.some : PrefixSelects(f.ids.some[i], r.id)
    /\ Specified(f.tags)
         => \A i \in DOMAIN f.tags.some :
               \E t \in tg, j \in DOMAIN f.tags.some[i].vals :
                  /\ t.event_id = r.id
                  /\ t.name = f.tags.some[i].key
                  /\ t.value = TagValue(f.tags.some[i].vals[j])

\* C16: every event the historical query for one filter returns is not
\* hidden and satisfies all constraints of the filter at once: authors AND
\* kinds AND ids AND tags AND the time bounds, also for a filter whose authors
\* list has two or more entries.
C16_ResultsSatisfyFilter ==
    Answered
    => \A r \in last.res.rows :
          /\ ~r.hidden
          /\ SatisfiesOthers(last.filter, r, last.tag)
          /\ last.filter.since # NULL => r.created_at >= last.filter.since.some
          /\ last.filter.until # NULL => r.created_at <= last.filter.until.some

\* C18: since and until are inclusive: a stored event that is not hidden,
\* whose created_at equals the filter's since (or its until) and that
\* satisfies the filter's other constraints is returned by the query.
C18_TimeBoundsInclusive ==
    (Answered /\ last.filter.limit = NULL)
    => \A r \in last.event :
          (/\ ~r.hidden
           /\ SatisfiesOthers(last.filter, r, last.tag)
           /\ last.filter.since # NULL => r.created_at >= last.filter.since.some
           /\ last.filter.until # NULL => r.created_at <= last.filter.until.some
           /\ \/ last.filter.since = Some(r.created_at)
              \/ last.filter.until = Some(r.created_at))
          => r \in last.res.rows


(***************************************************************************)
(* Tag values, from indexing to querying: events whose first tag row named *)
(* by a letter carries a value of each kind, and the filters that ask for  *)
(* that value.  The database itself does not fail here.                    *)
(***************************************************************************)
\* text of even length that is not hex, and lowercase hex of odd length
EvenText == Str("none", 4, 931)
OddHex == Str("lower", 3, 932)

\* notes tagged with a value of each kind
TagEventTable ==
    << Ev(17, PkA, 1, 1, << <<"t", EvenText>> >>, NULL),
       Ev(18, PkA, 1, 1, << <<"t", OddHex>> >>, NULL),
       Ev(19, PkA, 1, 1, << <<"t", PlainText>>, <<"p", PkB>> >>, NULL) >>

TagEvents == {EventTable[5]} \cup {TagEventTable[i] : i \in DOMAIN TagEventTable}

\* a filter {#x: [v]}
TagFilter(x, v) ==
    ReqFilter(NULL, NULL, NULL, Some(<<[key |-> x, vals |-> <<v>>]>>),
              NULL, NULL, NULL)

TagFilters ==
    {TagFilter("p", PkB), TagFilter("t", EvenText), TagFilter("t", OddHex),
     TagFilter("t", PlainText), TagFilter("e", PkB)}

InitTags == RepoInit /\ ConnInit /\ WriterStart(DefaultSettings)

NextTags ==
    \/ \E e \in TagEvents : RepoWrite(e, FALSE)
    \/ \E f \in TagFilters : Query(f, FALSE)

SpecTags == InitTags /\ [][NextTags]_vars

\* the first tag row of e named x carries the value v
FirstTagRowIs(e, x, v) ==
    \E i \in DOMAIN e.tags :
        /\ e.tags[i][1] = x
        /\ ~\E j \in 1..(i - 1) : e.tags[j][1] = x
        /\ Len(e.tags[i]) >= 2
        /\ e.tags[i][2] = v

\* C27: tag values round-trip between indexing and querying: for every
\* stored event that is not hidden and whose first tag row named by a single
\* letter x is [x, v], the filter {#x: [v]} returns that event, whether v is
\* even-length lowercase hex or anything else (odd-length hex, even-length
\* text that is not hex).
C27_TagRoundTrip ==
    (last.op = "query" /\ last.filter \in TagFilters)
    => LET kv == last.filter.tags.some[1]
       IN  \A r \in last.event :
              (/\ ~r.hidden
               /\ single_char_tagname(kv.key)
               /\ FirstTagRowIs(r.content, kv.key, kv.vals[1]))
              => (last.res.ok /\ r \in last.res.rows)

====
